---- MODULE Spec2Model ----
(***************************************************************************)
(* Chip-Analysis: the BoxFilter image pipeline (chip_analysis/box_filter)  *)
(* and the RemoveOutliers framework step, as a state machine.              *)
(*                                                                         *)
(* A volume is a sequence of slices, a slice a function from pixel         *)
(* coordinates <<row, col>> (0-based, as numpy indexes them) to a value.   *)
(* A value is a float modelled as an exact fraction <<n, d>> in lowest     *)
(* terms with d > 0, or one of the IEEE specials: NaN = <<0, 0>>,          *)
(* +inf = <<1, 0>>, -inf = <<-1, 0>>.                                      *)
(***************************************************************************)
EXTENDS Integers, Sequences, FiniteSets, TLC

\* ------------------------------------------------------------- bounds
\* Image height (numpy axis 1) and width (numpy axis 2), number of slices.
H == 3
W == 3
NSlices == 1
\* Grey levels of a raw input image are 0..MaxLevel.
MaxLevel == 1
\* A binary slice is a flat background with at most MaxSpots other pixels.
MaxSpots == 2
\* Border widths tried by the Boundary Culler are 0..MaxWidth.
MaxWidth == 1
\* A pipeline configuration lists at most MaxSteps steps.
MaxSteps == 2

\* ------------------------------------------------------------- floats
Zero == <<0, 1>>
One == <<1, 1>>
NaN == <<0, 0>>
Inf == <<1, 0>>

Abs(i) == IF i < 0 THEN 0 - i ELSE i
Sign(i) == IF i < 0 THEN 0 - 1 ELSE IF i > 0 THEN 1 ELSE 0

RECURSIVE GCD(_, _)
GCD(a, b) == IF b = 0 THEN a ELSE GCD(b, a % b)

\* The float with value n/d: lowest terms, positive denominator; x/0 is
\* +-inf and 0/0 is NaN, as numpy's true division gives them.
Frac(n, d) ==
  IF d = 0 THEN <<Sign(n), 0>>
  ELSE LET g == GCD(Abs(n), Abs(d))
           s == Sign(d)
       IN  <<(s * n) \div g, (s * d) \div g>>

Flt(i) == <<i, 1>>
IsNaN(x) == x = NaN
IsFinite(x) == x[2] # 0

\* x < y on floats: every comparison with NaN is false.
Lt(x, y) ==
  IF IsNaN(x) \/ IsNaN(y) THEN FALSE
  ELSE IF ~IsFinite(x) /\ ~IsFinite(y) THEN x[1] < y[1]
  ELSE IF ~IsFinite(x) THEN x[1] < 0
  ELSE IF ~IsFinite(y) THEN y[1] > 0
  ELSE x[1] * y[2] < y[1] * x[2]

Gt(x, y) == Lt(y, x)
Ge(x, y) == ~IsNaN(x) /\ ~IsNaN(y) /\ ~Lt(x, y)

\* x - y and x / y on floats (the operands the pipeline forms are finite;
\* a NaN operand propagates).
FSub(x, y) ==
  IF ~IsFinite(x) \/ ~IsFinite(y) THEN NaN
  ELSE Frac(x[1] * y[2] - y[1] * x[2], x[2] * y[2])

FDiv(x, y) ==
  IF ~IsFinite(x) \/ ~IsFinite(y) THEN NaN
  ELSE Frac(x[1] * y[2], x[2] * y[1])

\* np.clip(x, lo, hi) = minimum(maximum(x, lo), hi)
FClip(x, lo, hi) ==
  LET m == IF IsNaN(x) \/ IsNaN(lo) THEN NaN ELSE IF Lt(x, lo) THEN lo ELSE x
  IN  IF IsNaN(m) \/ IsNaN(hi) THEN NaN ELSE IF Lt(hi, m) THEN hi ELSE m

\* ------------------------------------------------------------- volumes
Rows == 0 .. (H - 1)
Cols == 0 .. (W - 1)
Pix == Rows \X Cols

\* An attribute that holds None.
None == << >>

\* Foreground of a slice: scipy.ndimage.label takes every nonzero sample
\* (NaN included) as foreground.
Foreground(slice) == {p \in Pix : slice[p] # Zero}

\* ------------------------------------------------------------- stage results
\* What a stage call comes to: the volume it stores, or the exception it raises.
Ok(vol) == [exc |-> "none", out |-> vol]
Raise(e) == [exc |-> e, out |-> None]

\* ------------------------------------------------------------- np.quantile
FAdd(x, y) ==
  IF ~IsFinite(x) \/ ~IsFinite(y) THEN NaN
  ELSE Frac(x[1] * y[2] + y[1] * x[2], x[2] * y[2])

FMul(x, y) ==
  IF ~IsFinite(x) \/ ~IsFinite(y) THEN NaN
  ELSE Frac(x[1] * y[1], x[2] * y[2])

\* The k-th smallest sample (k from 0) of a slice, i.e. sorted(flat)[k].
OrderStat(slice, k) ==
  CHOOSE v \in {slice[p] : p \in Pix} :
    /\ Cardinality({p \in Pix : Lt(slice[p], v)}) <= k
    /\ k < Cardinality({p \in Pix : ~Lt(v, slice[p])})

\* np.quantile(slice, q) over both image axes, default (linear) method:
\* the virtual index q * (M - 1) of the sorted samples, interpolated.
Quantile(slice, q) ==
  LET M == H * W
      pos == q[1] * (M - 1)
      j == pos \div q[2]
      rem == pos % q[2]
      next == IF j + 1 > M - 1 THEN M - 1 ELSE j + 1
      a == OrderStat(slice, j)
      b == OrderStat(slice, next)
  IN  FAdd(a, FMul(FSub(b, a), Frac(rem, q[2])))

\* ------------------------------------------------------------- stage 1
\* BoxFilter.removeOutliers: clip every slice to its own two quantiles and
\* rescale by (clipped - lower) / (upper - lower).
removeOutliersSlice(slice, quantiles) ==
  LET lower == Quantile(slice, quantiles[1])
      upper == Quantile(slice, quantiles[2])
  IN  [p \in Pix |->
         FDiv(FSub(FClip(slice[p], lower, upper), lower), FSub(upper, lower))]

removeOutliersOf(vol, cfg) ==
  Ok([n \in 1 .. Len(vol) |-> removeOutliersSlice(vol[n], cfg.outlierQuantiles)])

\* ------------------------------------------------------------- stage 2
\* BoxFilter.blackWhiteFilter: the two masked assignments run one after the
\* other on the same array, then the optional inversion.
\* blackWhitePixel inverting whatever the flag says.
blackWhitePixel_alwaysInverts(x, t, invert) ==
  LET a == IF Lt(x, t) THEN Zero ELSE x
      b == IF Ge(a, t) THEN One ELSE a
  IN  FSub(One, b)

blackWhitePixel(x, t, invert) ==
  LET a == IF Lt(x, t) THEN Zero ELSE x
      b == IF Ge(a, t) THEN One ELSE a
  IN  IF invert THEN FSub(One, b) ELSE b

blackWhiteFilterOf(vol, cfg) ==
  IF vol = None THEN Raise("TypeError")
  ELSE Ok([n \in 1 .. Len(vol) |->
            [p \in Pix |-> blackWhitePixel(vol[n][p], cfg.bwThreshold, cfg.bwInvert)]])

\* ------------------------------------------------------------- stage 3
\* A Python slice bound on an axis of length n (the stop of a[:k], the start
\* of a[k:]): a negative k counts from the end, and -0 is 0.
PyBound(k, n) == IF k < 0 THEN (IF n + k < 0 THEN 0 ELSE n + k) ELSE (IF k > n THEN n ELSE k)

\* boundaryWidths taking a pair as the leading widths only.
boundaryWidths_leadingOnly(bpr) ==
  IF Len(bpr) = 2 THEN <<bpr[1], bpr[2], 0, 0>>
  ELSE <<bpr[1], bpr[2], bpr[3], bpr[4]>>

\* The unpacking of boundaryPixelRemoval into l, t, r, b.
boundaryWidths(bpr) ==
  IF Len(bpr) = 2 THEN <<bpr[1], bpr[2], bpr[1], bpr[2]>>
  ELSE <<bpr[1], bpr[2], bpr[3], bpr[4]>>

\* The four slice assignments imgs[:,:l,:], imgs[:,-r:,:], imgs[:,:,:t],
\* imgs[:,:,-b:] = 0 on one slice.
cullSlice(slice, w) ==
  [p \in Pix |->
     IF \/ p[1] < PyBound(w[1], H)
        \/ p[1] >= PyBound(0 - w[3], H)
        \/ p[2] < PyBound(w[2], W)
        \/ p[2] >= PyBound(0 - w[4], W)
     THEN Zero ELSE slice[p]]

cullBoundaryOf(vol, bpr) ==
  IF Len(bpr) \notin {2, 4} THEN Raise("ValueError")
  ELSE IF vol = None THEN Raise("IndexError")
  ELSE Ok([n \in 1 .. Len(vol) |-> cullSlice(vol[n], boundaryWidths(bpr))])

\* ------------------------------------------------------------- labelling
\* scipy.ndimage.generate_binary_structure(2, connectivity): q is joined to p
\* when its offset lies in the structuring element, i.e. each coordinate
\* differs by at most 1 and the differences sum to at most `connectivity`
\* (1: the cross, 2: the full square).
Adjacent(p, q, connectivity) ==
  /\ Abs(q[1] - p[1]) <= 1
  /\ Abs(q[2] - p[2]) <= 1
  /\ Abs(q[1] - p[1]) + Abs(q[2] - p[2]) <= connectivity

RECURSIVE Flood(_, _, _, _)
Flood(S, frontier, rest, connectivity) ==
  LET new == {q \in rest : \E p \in frontier : Adjacent(p, q, connectivity)}
  IN  IF new = {} THEN S ELSE Flood(S \cup new, new, rest \ new, connectivity)

\* scipy.ndimage.label: the connected components of the foreground.
RECURSIVE Components(_, _)
Components(fg, connectivity) ==
  IF fg = {} THEN {}
  ELSE LET p == CHOOSE q \in fg : TRUE
           c == Flood({p}, {p}, fg \ {p}, connectivity)
       IN  {c} \cup Components(fg \ c, connectivity)

Label(slice, connectivity) == Components(Foreground(slice), connectivity)

\* scipy.ndimage.value_indices(labelled).values(): the pixel set of every
\* distinct value of the label map; label 0, the background, is one of them.
ValueIndices(slice, connectivity) ==
  LET bg == Pix \ Foreground(slice)
  IN  Label(slice, connectivity) \cup (IF bg = {} THEN {} ELSE {bg})

\* imgs[n, indices] = 0 with indices = (rows, cols): numpy reads the pair as
\* one 2 x K integer array indexing axis 1, so every number in rows or in
\* cols names a whole row of the slice.
IndexedRows(region) == {p[1] : p \in region} \cup {p[2] : p \in region}

\* AssignZero writing 1 where it should write 0.
AssignZero_writesOne(slice, region) ==
  [p \in Pix |-> IF p[1] \in IndexedRows(region) THEN One ELSE slice[p]]

AssignZero(slice, region) ==
  [p \in Pix |-> IF p[1] \in IndexedRows(region) THEN Zero ELSE slice[p]]

\* The loop over the regions of one slice: the label map is computed once,
\* the assignments only write zeros, so their order does not matter; an
\* index past the last row raises IndexError.
FilterRegions(slice, rejected) ==
  IF \E i \in IndexedRows(UNION rejected) : i >= H THEN Raise("IndexError")
  ELSE Ok(AssignZero(slice, UNION rejected))

\* The per-slice loop of a region filter (for n in range(imgs.shape[0])),
\* given what each slice comes to: the first exception ends the call.
RegionStage(done) ==
  IF \E r \in done : r[2].exc # "none" THEN Raise("IndexError")
  ELSE Ok([n \in 1 .. Cardinality(done) |-> (CHOOSE r \in done : r[1] = n)[2].out])

\* ------------------------------------------------------------- stage 4
\* BoxFilter.removeIslands
islandRejected(region, thresholds) ==
  Cardinality(region) < thresholds[1] \/ Cardinality(region) > thresholds[2]

removeIslandsSlice(slice, thresholds) ==
  FilterRegions(slice, {r \in ValueIndices(slice, 2) : islandRejected(r, thresholds)})

\* np.copy(None) has no shape[0]: IndexError.
removeIslandsOf(vol, cfg) ==
  IF vol = None THEN Raise("IndexError")
  ELSE RegionStage({<<n, removeIslandsSlice(vol[n], cfg.pixelSizeThresholds)>> :
                      n \in 1 .. Len(vol)})

\* ------------------------------------------------------------- stage 5
\* BoxFilter.aspectRatioFilter
SetMax(S) == CHOOSE x \in S : \A y \in S : y <= x
SetMin(S) == CHOOSE x \in S : \A y \in S : x <= y
dXOf(region) == SetMax({p[1] : p \in region}) - SetMin({p[1] : p \in region})
dYOf(region) == SetMax({p[2] : p \in region}) - SetMin({p[2] : p \in region})

\* maxAspect > dX / dY > (1/maxAspect), dX and dY numpy integers: the
\* quotient is inf or nan when dY is 0.
aspectZeroed(region, maxAspect) ==
  LET ratio == Frac(dXOf(region), dYOf(region))
  IN  Gt(maxAspect, ratio) /\ Gt(ratio, FDiv(One, maxAspect))

aspectRatioSlice(slice, maxAspect) ==
  FilterRegions(slice, {r \in ValueIndices(slice, 1) : aspectZeroed(r, maxAspect)})

aspectRatioFilterOf(vol, cfg) ==
  IF vol = None THEN Raise("IndexError")
  ELSE RegionStage({<<n, aspectRatioSlice(vol[n], cfg.targetAspect)>> :
                      n \in 1 .. Len(vol)})

\* ------------------------------------------------------------- inputs
\* Slices that are a flat background with at most k other pixels.
SpotSlices(values, k) ==
  UNION {{[p \in Pix |-> IF p \in S THEN f[p] ELSE b] : f \in [S -> values], b \in values} :
         S \in {T \in SUBSET Pix : Cardinality(T) <= k}}

FlatSlices(values) == {[p \in Pix |-> v] : v \in values}

\* Volumes of NSlices slices: the first slice from `first`, the others flat.
VolumesOf(first, values) ==
  {[n \in 1 .. NSlices |-> IF n = 1 THEN s ELSE e[n]] :
     s \in first, e \in [2 .. NSlices -> FlatSlices(values)]}

\* Raw image stacks: grey levels, a flat background with at most one spot.
Levels == {Flt(k) : k \in 0 .. MaxLevel}
RawVolumes == VolumesOf(SpotSlices(Levels, 1), Levels)
\* Binary stacks: a background of 0 or of 1 with at most MaxSpots flipped pixels.
BinaryVolumes == VolumesOf(SpotSlices({Zero, One}, MaxSpots), {One})

\* BoxFilterConfig, its defaults scaled from a 2000 x 2000 image to H x W.
DefaultConfig ==
  [outlierQuantiles |-> <<Frac(1, 4), Frac(3, 4)>>,
   bwThreshold |-> Frac(1, 2),
   bwInvert |-> TRUE,
   boundaryPixelRemoval |-> <<1, 1>>,
   pixelSizeThresholds |-> <<1, H * W>>,
   targetAspect |-> Flt(2)]

\* ------------------------------------------------------------- state
VARIABLES
  imgs,                    \* self.imgs
  config,                  \* self.config
  _isclean,                \* self._isclean, written by __init__ and filter
  _isClean,                \* self._isClean, written by the mark_dirty wrapper
  _0_outlierFree,
  _1_bw,
  _2_culled,
  _3_noIslands,
  _4_aspectRatioFiltered,
  result,
  last,                    \* the method called last
  exc                      \* the exception that call raised, or "none"

\* The RemoveOutliers step and its DataManager.  numpy arrays are objects that
\* several names can refer to, so they live in a heap and names hold references.
VARIABLES
  heap,                    \* the ndarray objects: reference |-> volume
  _results,                \* DataManager._results: id |-> reference
  input_stack,             \* self.input_stack
  filtered_stack,          \* self.filtered_stack
  outlier_quantile,        \* self.outlier_quantile
  invert                   \* self.invert

\* The ProcessPipeline that runs framework steps against the DataManager.
VARIABLES
  pipeline_steps,          \* self.pipeline_steps, None if on_init raised
  idx                      \* the number of steps run() has started

slots == <<_0_outlierFree, _1_bw, _2_culled, _3_noIslands, _4_aspectRatioFiltered>>
box == <<imgs, config, _isclean, _isClean, slots, result>>
step == <<heap, _results, input_stack, filtered_stack, outlier_quantile, invert>>
pipe == <<pipeline_steps, idx>>
vars == <<box, step, pipe, last, exc>>

\* BoxFilter.__init__
Constructed ==
  /\ _isclean = FALSE
  /\ _isClean = "unset"
  /\ _0_outlierFree = None
  /\ _1_bw = None
  /\ _2_culled = None
  /\ _3_noIslands = None
  /\ _4_aspectRatioFiltered = None
  /\ result = None
  /\ last = "__init__"
  /\ exc = "none"

\* No RemoveOutliers step and no DataManager exist beside the BoxFilter.
NoStep ==
  /\ heap = << >>
  /\ _results = << >>
  /\ input_stack = None
  /\ filtered_stack = None
  /\ outlier_quantile = None
  /\ invert = FALSE

\* No ProcessPipeline exists.
NoPipeline ==
  /\ pipeline_steps = None
  /\ idx = 0

\* ------------------------------------------------------------- stage calls
\* A @mark_dirty method called on the object: the wrapper's assignment, then
\* the method body, which stores its volume unless it raises.
removeOutliers ==
  LET r == removeOutliersOf(imgs, config)
  IN  /\ _isClean' = "False"
      /\ _0_outlierFree' = r.out
      /\ last' = "removeOutliers"
      /\ exc' = r.exc
      /\ UNCHANGED <<step, pipe>>
      /\ UNCHANGED <<imgs, config, _isclean, _1_bw, _2_culled, _3_noIslands,
                     _4_aspectRatioFiltered, result>>

blackWhiteFilter ==
  LET r == blackWhiteFilterOf(_0_outlierFree, config)
  IN  /\ _isClean' = "False"
      /\ _1_bw' = IF r.exc = "none" THEN r.out ELSE _1_bw
      /\ last' = "blackWhiteFilter"
      /\ exc' = r.exc
      /\ UNCHANGED <<step, pipe>>
      /\ UNCHANGED <<imgs, config, _isclean, _0_outlierFree, _2_culled, _3_noIslands,
                     _4_aspectRatioFiltered, result>>

cullBoundary ==
  LET r == cullBoundaryOf(_1_bw, config.boundaryPixelRemoval)
  IN  /\ _isClean' = "False"
      /\ _2_culled' = IF r.exc = "none" THEN r.out ELSE _2_culled
      /\ last' = "cullBoundary"
      /\ exc' = r.exc
      /\ UNCHANGED <<step, pipe>>
      /\ UNCHANGED <<imgs, config, _isclean, _0_outlierFree, _1_bw, _3_noIslands,
                     _4_aspectRatioFiltered, result>>

\* removeIslands working on self._2_culled itself instead of a copy of it.
removeIslands_inPlace ==
  LET r == removeIslandsOf(_2_culled, config)
  IN  /\ _isClean' = "False"
      /\ _3_noIslands' = IF r.exc = "none" THEN r.out ELSE _3_noIslands
      /\ _2_culled' = IF r.exc = "none" THEN r.out ELSE _2_culled
      /\ last' = "removeIslands"
      /\ exc' = r.exc
      /\ UNCHANGED <<step, pipe>>
      /\ UNCHANGED <<imgs, config, _isclean, _0_outlierFree, _1_bw,
                     _4_aspectRatioFiltered, result>>

removeIslands ==
  LET r == removeIslandsOf(_2_culled, config)
  IN  /\ _isClean' = "False"
      /\ _3_noIslands' = IF r.exc = "none" THEN r.out ELSE _3_noIslands
      /\ last' = "removeIslands"
      /\ exc' = r.exc
      /\ UNCHANGED <<step, pipe>>
      /\ UNCHANGED <<imgs, config, _isclean, _0_outlierFree, _1_bw, _2_culled,
                     _4_aspectRatioFiltered, result>>

aspectRatioFilter ==
  LET r == aspectRatioFilterOf(_3_noIslands, config)
  IN  /\ _isClean' = "False"
      /\ _4_aspectRatioFiltered' = IF r.exc = "none" THEN r.out ELSE _4_aspectRatioFiltered
      /\ last' = "aspectRatioFilter"
      /\ exc' = r.exc
      /\ UNCHANGED <<step, pipe>>
      /\ UNCHANGED <<imgs, config, _isclean, _0_outlierFree, _1_bw, _2_culled,
                     _3_noIslands, result>>

\* ------------------------------------------------------------- filter()
\* BoxFilter.filter: the five stage calls in order, each feeding the next;
\* the first exception ends the call, leaving what was stored before it and
\* skipping the two final assignments.
filter ==
  LET r0 == removeOutliersOf(imgs, config)
      r1 == blackWhiteFilterOf(r0.out, config)
      r2 == cullBoundaryOf(r1.out, config.boundaryPixelRemoval)
      r3 == IF r2.exc = "none" THEN removeIslandsOf(r2.out, config) ELSE r2
      r4 == IF r3.exc = "none" THEN aspectRatioFilterOf(r3.out, config) ELSE r3
  IN  /\ _isClean' = "False"
      /\ _0_outlierFree' = r0.out
      /\ _1_bw' = r1.out
      /\ _2_culled' = IF r2.exc = "none" THEN r2.out ELSE _2_culled
      /\ _3_noIslands' = IF r3.exc = "none" THEN r3.out ELSE _3_noIslands
      /\ _4_aspectRatioFiltered' = IF r4.exc = "none" THEN r4.out ELSE _4_aspectRatioFiltered
      /\ result' = IF r4.exc = "none" THEN r4.out ELSE result
      /\ _isclean' = IF r4.exc = "none" THEN TRUE ELSE _isclean
      /\ last' = "filter"
      /\ exc' = r4.exc
      /\ UNCHANGED <<imgs, config, step, pipe>>

\* ------------------------------------------------------------- the object
\* A BoxFilter built on a raw image stack, then used through its methods.
Configs ==
  {[DefaultConfig EXCEPT !.outlierQuantiles = q, !.bwInvert = i,
                         !.boundaryPixelRemoval = b] :
     q \in {<<Frac(1, 4), Frac(3, 4)>>, <<Zero, One>>},
     i \in BOOLEAN,
     b \in {<<1, 1>>, <<0, 1, 1, 0>>, <<1, 1, 1>>}}

Init ==
  /\ imgs \in RawVolumes
  /\ config \in Configs
  /\ Constructed
  /\ NoStep
  /\ NoPipeline

Next ==
  \/ filter
  \/ removeOutliers
  \/ blackWhiteFilter
  \/ cullBoundary
  \/ removeIslands
  \/ aspectRatioFilter

Spec == Init /\ [][Next]_vars

\* ------------------------------------------------------------- region filters
\* The two region filters on an object whose _2_culled and _3_noIslands hold
\* a binary volume.
RegionConfigs ==
  {[DefaultConfig EXCEPT !.pixelSizeThresholds = c[1], !.targetAspect = c[2]] :
     c \in {<<<<1, 2>>, Flt(3)>>, <<<<2, H * W>>, Flt(2)>>, <<<<0, 1>>, Frac(3, 2)>>}}

InitRegion ==
  /\ \E vol \in BinaryVolumes : imgs = vol /\ _2_culled = vol /\ _3_noIslands = vol
  /\ config \in RegionConfigs
  /\ _isclean = FALSE
  /\ _isClean = "unset"
  /\ _0_outlierFree = None
  /\ _1_bw = None
  /\ _4_aspectRatioFiltered = None
  /\ result = None
  /\ last = "__init__"
  /\ exc = "none"
  /\ NoStep
  /\ NoPipeline

NextRegion ==
  \/ removeIslands
  \/ aspectRatioFilter

SpecRegion == InitRegion /\ [][NextRegion]_vars

\* ------------------------------------------------------------- C1, C2, C5
Returned(method) == last = method /\ exc = "none"

\* What the Region Size Filter is specified to leave of a slice: the pixels
\* of the 8-connected components whose pixel count is within the bounds.
SizeAccepted(slice, thresholds) ==
  UNION {c \in Label(slice, 2) :
           thresholds[1] <= Cardinality(c) /\ Cardinality(c) <= thresholds[2]}

\* What the Aspect/Shape Filter is specified to leave of a slice: the pixels
\* of the 8-connected components with 1/r < dX/dY < r, r = rn/rd.
AspectAccepted(slice, r) ==
  UNION {c \in Label(slice, 2) :
           /\ dYOf(c) > 0
           /\ dXOf(c) * r[2] < r[1] * dYOf(c)
           /\ r[2] * dYOf(c) < r[1] * dXOf(c)}

\* The slice with exactly the pixels of `keep` left as they are.
Restricted(slice, keep) == [p \in Pix |-> IF p \in keep THEN slice[p] ELSE Zero]

\* C1: after removeIslands, every slice of _3_noIslands is the input slice
\* restricted to its 8-connected components of tSmall <= count <= tLarge:
\* rejected components are zero, the others are unchanged.
C1_RegionSizeFilter ==
  Returned("removeIslands") =>
    \A n \in 1 .. Len(_2_culled) :
      _3_noIslands[n] =
        Restricted(_2_culled[n], SizeAccepted(_2_culled[n], config.pixelSizeThresholds))

\* C2: after aspectRatioFilter, every slice of _4_aspectRatioFiltered is the
\* input slice restricted to its 8-connected components whose dX/dY lies
\* strictly between 1/targetAspect and targetAspect.
C2_AspectFilter ==
  Returned("aspectRatioFilter") =>
    \A n \in 1 .. Len(_3_noIslands) :
      _4_aspectRatioFiltered[n] =
        Restricted(_3_noIslands[n], AspectAccepted(_3_noIslands[n], config.targetAspect))

C1_Witness ==
  /\ Returned("removeIslands")
  /\ _3_noIslands # _2_culled
  /\ Foreground(_3_noIslands[1]) # {}

C2_Witness ==
  /\ Returned("aspectRatioFilter")
  /\ _4_aspectRatioFiltered # _3_noIslands

\* ------------------------------------------------------------- Boundary Culler
\* cullBoundary on an object whose _1_bw holds a binary volume, under every
\* width configuration of 2 or 4 widths in 0 .. MaxWidth.
WidthConfigs ==
  {<<l, t>> : l \in 0 .. MaxWidth, t \in 0 .. MaxWidth}
    \cup {<<l, t, r, b>> : l \in 0 .. MaxWidth, t \in 0 .. MaxWidth,
                           r \in 0 .. MaxWidth, b \in 0 .. MaxWidth}

InitCull ==
  /\ \E vol \in BinaryVolumes : imgs = vol /\ _1_bw = vol
  /\ \E w \in WidthConfigs : config = [DefaultConfig EXCEPT !.boundaryPixelRemoval = w]
  /\ _isclean = FALSE
  /\ _isClean = "unset"
  /\ _0_outlierFree = None
  /\ _2_culled = None
  /\ _3_noIslands = None
  /\ _4_aspectRatioFiltered = None
  /\ result = None
  /\ last = "__init__"
  /\ exc = "none"
  /\ NoStep
  /\ NoPipeline

NextCull == cullBoundary

SpecCull == InitCull /\ [][NextCull]_vars

\* The widths (left, top, right, bottom) a configuration stands for: a pair
\* is symmetric on each pair of opposite sides.
SidesOf(bpr) == IF Len(bpr) = 2 THEN bpr \o bpr ELSE bpr

\* The pixels at least left/top from the leading edges and right/bottom from
\* the trailing edges of their axis.
Interior(sides) ==
  {p \in Pix : /\ sides[1] <= p[1] /\ p[1] <= H - 1 - sides[3]
               /\ sides[2] <= p[2] /\ p[2] <= W - 1 - sides[4]}

\* C4: cullBoundary sets no zero pixel of its input to nonzero and leaves
\* every pixel of the non-culled interior as it was, widths of 0 included.
C4_CullConservation ==
  Returned("cullBoundary") =>
    \A n \in 1 .. Len(_1_bw) :
      /\ \A p \in Pix : _1_bw[n][p] = Zero => _2_culled[n][p] = Zero
      /\ \A p \in Interior(SidesOf(config.boundaryPixelRemoval)) :
           _2_culled[n][p] = _1_bw[n][p]

C4_Witness ==
  /\ Returned("cullBoundary")
  /\ 0 \in {config.boundaryPixelRemoval[i] : i \in 1 .. Len(config.boundaryPixelRemoval)}
  /\ Foreground(_1_bw[1]) \cap Interior(SidesOf(config.boundaryPixelRemoval)) # {}

\* C7: cullBoundary under (l, t) stores the volume it stores under (l, t, l, t).
C7_PairAsQuad ==
  (Returned("cullBoundary") /\ Len(config.boundaryPixelRemoval) = 2) =>
    _2_culled = cullBoundaryOf(_1_bw, config.boundaryPixelRemoval \o config.boundaryPixelRemoval).out

C7_Witness ==
  /\ Returned("cullBoundary")
  /\ Len(config.boundaryPixelRemoval) = 2
  /\ _2_culled # _1_bw
  /\ Foreground(_2_culled[1]) # {}

\* ------------------------------------------------------------- Binarizer
\* blackWhiteFilter on an object whose _0_outlierFree holds a finite volume,
\* under thresholds below, inside and above the normalised range [0, 1].
BWValues == {Flt(0 - 1), Zero, Frac(1, 2), One} \cup {Flt(k) : k \in 1 .. MaxLevel + 1}
BWThresholds == {Flt(0 - 1), Zero, Frac(3, 10), Frac(1, 2), One, Flt(2)}

InitBW ==
  /\ \E vol \in VolumesOf(SpotSlices(BWValues, 1), {Zero, One}) :
       imgs = vol /\ _0_outlierFree = vol
  /\ \E t \in BWThresholds, i \in BOOLEAN :
       config = [DefaultConfig EXCEPT !.bwThreshold = t, !.bwInvert = i]
  /\ _isclean = FALSE
  /\ _isClean = "unset"
  /\ _1_bw = None
  /\ _2_culled = None
  /\ _3_noIslands = None
  /\ _4_aspectRatioFiltered = None
  /\ result = None
  /\ last = "__init__"
  /\ exc = "none"
  /\ NoStep
  /\ NoPipeline

NextBW == blackWhiteFilter

SpecBW == InitBW /\ [][NextBW]_vars

\* C10 as stated: with invert = false and any threshold, the Binarizer
\* applied to its own output gives that output again.
C10_Idempotent ==
  (Returned("blackWhiteFilter") /\ ~config.bwInvert) =>
    blackWhiteFilterOf(_1_bw, config).out = _1_bw

\* C10 amended: with invert = false and a threshold t <= 1, the Binarizer
\* applied to its own output gives that output again.
C10_IdempotentUpToOne ==
  (Returned("blackWhiteFilter") /\ ~config.bwInvert /\ Ge(One, config.bwThreshold)) =>
    blackWhiteFilterOf(_1_bw, config).out = _1_bw

C10_Witness ==
  /\ Returned("blackWhiteFilter")
  /\ ~config.bwInvert
  /\ Ge(One, config.bwThreshold)
  /\ _1_bw # _0_outlierFree
  /\ {_1_bw[1][p] : p \in Pix} = {Zero, One}

\* ------------------------------------------------------------- the run as a whole
\* The stage methods that can be called on the object directly.
StageMethods ==
  {"removeOutliers", "blackWhiteFilter", "cullBoundary", "removeIslands",
   "aspectRatioFilter"}

AllZero(vol) == vol # None /\ \A n \in 1 .. Len(vol) : \A p \in Pix : vol[n][p] = Zero

\* C3: the clean flag read by visualise() is True only in a state whose last
\* call was a filter() that ran every stage to completion; a direct stage call
\* or an aborting filter() leaves the object not clean.
C3_CleanOnlyAfterFilter == _isclean => Returned("filter")

C3_Witness == result # None /\ last \in StageMethods

\* C6: a filter() call that fails with the 'size 2 or 4 required' error has
\* computed or replaced no intermediate volume.
C6_ErrorBeforeProcessing ==
  [][(last' = "filter" /\ exc' = "ValueError") => UNCHANGED slots]_vars

C6_Witness == last = "filter" /\ exc = "ValueError"

\* C8: filter() without inversion on an all-zero volume leaves an all-zero
\* volume in every stage container and in the result.
C8_AllZeroInput ==
  (Returned("filter") /\ ~config.bwInvert /\ AllZero(imgs)) =>
    \A vol \in {_0_outlierFree, _1_bw, _2_culled, _3_noIslands,
                _4_aspectRatioFiltered, result} : AllZero(vol)

C8_Witness == Returned("filter") /\ ~config.bwInvert /\ AllZero(imgs)

\* ------------------------------------------------------------- RemoveOutliers step
\* Grey levels of a stack handed to the step: -MaxLevel .. MaxLevel; a stack is
\* a flat background with at most one spot, as a raw image stack is.
StepLevels == {Flt(k) : k \in (0 - MaxLevel) .. MaxLevel}
StepVolumes == VolumesOf(SpotSlices(StepLevels, 1), StepLevels)

\* RemoveOutliers._execute, the two masked assignments on one slice.
thresholdSlice(slice, q) ==
  LET threshold == Quantile(slice, q)
  IN  [p \in Pix |->
         LET a == IF Lt(slice[p], threshold) THEN Zero ELSE slice[p]
         IN  IF Gt(a, Zero) THEN One ELSE a]

\* 1 - self.input_stack
complement(vol) == [n \in 1 .. Len(vol) |-> [p \in Pix |-> FSub(One, vol[n][p])]]

\* DataManager.add(id, data) followed by RemoveOutliers(data_manager,
\* inputs = {"input_stack": id}): get() hands the step a deep copy.
InitStep ==
  /\ \E vol \in StepVolumes : heap = <<vol, vol>>
  /\ _results = [id \in {"raw_stack"} |-> 1]
  /\ input_stack = 2
  /\ filtered_stack = None
  /\ outlier_quantile = Frac(1, 10)
  /\ invert = FALSE
  /\ imgs = None
  /\ config = None
  /\ Constructed
  /\ NoPipeline

\* AbstractProcessStep.execute: _execute mutates the array self.input_stack
\* refers to, in place; the inversion builds a new array; register() refuses
\* an id that is already there, after the arrays were written.
execute ==
  LET old == heap[input_stack]
      mutated == [n \in 1 .. Len(old) |-> thresholdSlice(old[n], outlier_quantile)]
      written == [heap EXCEPT ![input_stack] = mutated]
      out == IF invert THEN Len(heap) + 1 ELSE input_stack
      known == "filtered_stack" \in DOMAIN _results
  IN  /\ heap' = IF invert THEN Append(written, complement(mutated)) ELSE written
      /\ input_stack' = out
      /\ filtered_stack' = out
      /\ _results' = IF known THEN _results
                     ELSE [id \in DOMAIN _results \cup {"filtered_stack"} |->
                             IF id = "filtered_stack" THEN out ELSE _results[id]]
      /\ last' = "execute"
      /\ exc' = IF known THEN "KeyError" ELSE "none"
      /\ UNCHANGED <<box, pipe, outlier_quantile, invert>>

NextStep == execute

SpecStep == InitStep /\ [][NextStep]_vars

\* What the single-quantile normaliser is stated to deliver for a stack.
BinaryOf(vol, q, inv) ==
  [n \in 1 .. Len(vol) |-> [p \in Pix |->
     LET x == vol[n][p]
         b == IF Lt(x, Quantile(vol[n], q)) \/ x = Zero THEN Zero ELSE One
     IN  IF inv THEN FSub(One, b) ELSE b]]

\* C9: the delivered filtered_stack is the 0/1 image of the input stack (0
\* below the slice's quantile threshold, 1 for every other nonzero pixel),
\* subtracted from 1 when the inversion flag is set.
C9_BinaryOutput ==
  Returned("execute") =>
    heap[_results["filtered_stack"]] =
      BinaryOf(heap[_results["raw_stack"]], outlier_quantile, invert)

C9_Witness ==
  /\ Returned("execute")
  /\ heap[_results["filtered_stack"]] # heap[_results["raw_stack"]]

\* ------------------------------------------------------------- ProcessPipeline
\* process_steps, the registry of step classes, and the class attributes of
\* its one entry.
process_steps == {"RemoveOutliers"}
inputs == {"input_stack"}
deliverables == {"filtered_stack"}

\* The data ids a configuration file can name.
DataIds == {"raw_stack", "filtered_stack", "clean_stack"}

\* One entry of the PipelineSteps list of the YAML configuration.
StepConfigs ==
  {[DisplayId |-> "remove outliers",
    ProcessStep |-> "RemoveOutliers",
    Inputs |-> [k \in inputs |-> i],
    Deliverables |-> [d \in deliverables |-> o]] : i \in DataIds, o \in DataIds}

StepLists == UNION {[1 .. n -> StepConfigs] : n \in 0 .. MaxSteps}

\* The Inputs list of the configuration, as the set of ids it declares.
DeclaredInputs == {{"raw_stack"}, {}, {"raw_stack", "clean_stack"}}

Values(f) == {f[k] : k \in DOMAIN f}

\* ProcessPipeline._validate_inputs: the exception it raises, or "none".
_validate_inputs(declared, registered, pedantic_input_checking) ==
  IF ~(declared \subseteq registered) THEN "ValueError"
  ELSE IF registered \ declared # {} /\ pedantic_input_checking THEN "ValueError"
  ELSE "none"

\* The ids in dm_copy once the loop of _validate_pipeline_steps has registered
\* the Deliverables values of the first k steps.
dm_copy(steps, registered, k) ==
  registered \cup UNION {Values(steps[j].Deliverables) : j \in 1 .. k}

\* ProcessPipeline._validate_pipeline_steps: the exception it raises, or "none".
_validate_pipeline_steps(steps, registered) ==
  IF \A i \in 1 .. Len(steps) :
       /\ Values(steps[i].Inputs) \subseteq dm_copy(steps, registered, i - 1)
       /\ Values(steps[i].Deliverables) \cap dm_copy(steps, registered, i - 1) = {}
  THEN "none"
  ELSE "ValueError"

\* ProcessPipeline.on_init after the path checks: the exception, or "none".
on_init(declared, registered, pedantic_input_checking, steps) ==
  IF _validate_inputs(declared, registered, pedantic_input_checking) # "none"
  THEN "ValueError"
  ELSE _validate_pipeline_steps(steps, registered)

\* ProcessPipeline(config_path, output_dir, inputs = {"raw_stack": vol}): the
\* data manager holds the inputs; pipeline_steps is set if validation passed.
InitPipe ==
  /\ \E vol \in StepVolumes : heap = <<vol>>
  /\ _results = [id \in {"raw_stack"} |-> 1]
  /\ \E declared \in DeclaredInputs, pedantic \in BOOLEAN, steps \in StepLists :
       LET e == on_init(declared, DOMAIN _results, pedantic, steps)
       IN  /\ exc = e
           /\ pipeline_steps = IF e = "none" THEN steps ELSE None
  /\ idx = 0
  /\ last = "__init__"
  /\ input_stack = None
  /\ filtered_stack = None
  /\ outlier_quantile = None
  /\ invert = FALSE
  /\ imgs = None
  /\ config = None
  /\ _isclean = FALSE
  /\ _isClean = "unset"
  /\ _0_outlierFree = None
  /\ _1_bw = None
  /\ _2_culled = None
  /\ _3_noIslands = None
  /\ _4_aspectRatioFiltered = None
  /\ result = None

\* run(), the head of a loop iteration: process_class(**kwargs), that is
\* AbstractProcessStep.__init__ on the next step configuration.  The new step
\* gets deep copies of its inputs; an exception leaves run().
instantiate ==
  /\ pipeline_steps # None
  /\ exc = "none"
  /\ last \in {"__init__", "execute"}
  /\ idx < Len(pipeline_steps)
  /\ LET step_config == pipeline_steps[idx + 1]
         provided == step_config.Inputs
         e == IF step_config.ProcessStep \notin process_steps THEN "ValueError"
              ELSE IF DOMAIN provided # inputs THEN "ValueError"
              ELSE IF provided["input_stack"] \notin DOMAIN _results THEN "KeyError"
              ELSE "none"
     IN  /\ exc' = e
         /\ IF e = "none"
            THEN /\ heap' = Append(heap, heap[_results[provided["input_stack"]]])
                 /\ input_stack' = Len(heap) + 1
                 /\ filtered_stack' = None
                 /\ outlier_quantile' = Frac(1, 10)
                 /\ invert' = FALSE
            ELSE UNCHANGED <<heap, input_stack, filtered_stack, outlier_quantile, invert>>
  /\ idx' = idx + 1
  /\ last' = "RemoveOutliers"
  /\ UNCHANGED <<box, _results, pipeline_steps>>

\* ProcessPipeline.run: each iteration instantiates the step, then executes it.
run ==
  \/ instantiate
  \/ (last = "RemoveOutliers" /\ exc = "none" /\ pipeline_steps # None /\ execute)

NextPipe == run

SpecPipe == InitPipe /\ [][NextPipe]_vars

\* C11: once construction has succeeded, no step of run() fails on an absent
\* input id or an already registered deliverable id, and before each step the
\* data manager holds exactly the ids validation assumed at that point.
C11_ValidatedRuns ==
  pipeline_steps # None =>
    /\ exc # "KeyError"
    /\ (exc = "none" /\ last \in {"__init__", "execute"}) =>
         DOMAIN _results = dm_copy(pipeline_steps, {"raw_stack"}, idx)

C11_Witness ==
  /\ pipeline_steps # None
  /\ Len(pipeline_steps) = MaxSteps
  /\ Returned("execute")

\* ------------------------------------------------------------- zero-width regions
\* aspectRatioFilter on an object whose _3_noIslands holds one-pixel-wide
\* vertical lines: a run of pixels in one column, and at most one other pixel.
Segments == {{<<r, c>> : r \in a .. b} : a \in Rows, b \in Rows, c \in Cols}

LineSlices ==
  {[p \in Pix |-> IF p \in seg \cup spot THEN One ELSE Zero] :
     seg \in Segments, spot \in {S \in SUBSET Pix : Cardinality(S) <= 1}}

LineVolumes == VolumesOf(LineSlices, {One})

AspectConfigs ==
  {[DefaultConfig EXCEPT !.targetAspect = a] : a \in {Flt(2), Frac(3, 2), One}}

InitAspect ==
  /\ \E vol \in LineVolumes : imgs = vol /\ _3_noIslands = vol
  /\ config \in AspectConfigs
  /\ _isclean = FALSE
  /\ _isClean = "unset"
  /\ _0_outlierFree = None
  /\ _1_bw = None
  /\ _2_culled = None
  /\ _4_aspectRatioFiltered = None
  /\ result = None
  /\ last = "__init__"
  /\ exc = "none"
  /\ NoStep
  /\ NoPipeline

NextAspect == aspectRatioFilter

SpecAspect == InitAspect /\ [][NextAspect]_vars

\* The connected components of a slice whose column extent dY is 0.
ZeroWidth(slice) == {region \in Label(slice, 2) : dYOf(region) = 0}

\* C12: every connected component with dY = 0 in the input of
\* aspectRatioFilter is rejected: all of its pixels are zero in the output.
C12_ZeroWidthRejected ==
  Returned("aspectRatioFilter") =>
    \A n \in 1 .. Len(_3_noIslands) : \A region \in ZeroWidth(_3_noIslands[n]) :
      \A p \in region : _4_aspectRatioFiltered[n][p] = Zero

C12_Witness ==
  /\ Returned("aspectRatioFilter")
  /\ \E region \in ZeroWidth(_3_noIslands[1]) : Cardinality(region) > 1

\* ------------------------------------------------------------- earlier data
\* A BoxFilter used through its methods, or a RemoveOutliers step executed
\* against its DataManager.
FrameConfigs ==
  {[DefaultConfig EXCEPT !.outlierQuantiles = <<Zero, One>>, !.bwInvert = i,
                         !.pixelSizeThresholds = <<2, H * W>>] :
     i \in BOOLEAN}

\* Image stacks of two grey levels: one slice with at most one spot, the
\* other slices dark.
FrameVolumes == VolumesOf(SpotSlices({Zero, One}, 1), {Zero})

InitFrame ==
  \/ /\ imgs \in FrameVolumes
     /\ config \in FrameConfigs
     /\ Constructed
     /\ NoStep
     /\ NoPipeline
  \/ InitStep

NextFrame ==
  \/ (imgs # None /\ Next)
  \/ (imgs = None /\ execute)

SpecFrame == InitFrame /\ [][NextFrame]_vars

\* C13: a stage call leaves self.imgs and the containers of the other stages
\* as they were; after filter() every container still holds what its stage
\* made of the container before it; execute() leaves the data stored under
\* the step's input id as it was.
C13_EarlierDataKept ==
  [][/\ imgs' = imgs
     /\ last' = "removeOutliers" =>
          UNCHANGED <<_1_bw, _2_culled, _3_noIslands, _4_aspectRatioFiltered, result>>
     /\ last' = "blackWhiteFilter" =>
          UNCHANGED <<_0_outlierFree, _2_culled, _3_noIslands, _4_aspectRatioFiltered, result>>
     /\ last' = "cullBoundary" =>
          UNCHANGED <<_0_outlierFree, _1_bw, _3_noIslands, _4_aspectRatioFiltered, result>>
     /\ last' = "removeIslands" =>
          UNCHANGED <<_0_outlierFree, _1_bw, _2_culled, _4_aspectRatioFiltered, result>>
     /\ last' = "aspectRatioFilter" =>
          UNCHANGED <<_0_outlierFree, _1_bw, _2_culled, _3_noIslands, result>>
     /\ (last' = "filter" /\ exc' = "none") =>
          /\ _0_outlierFree' = removeOutliersOf(imgs, config).out
          /\ _1_bw' = blackWhiteFilterOf(_0_outlierFree', config).out
          /\ _2_culled' = cullBoundaryOf(_1_bw', config.boundaryPixelRemoval).out
          /\ _3_noIslands' = removeIslandsOf(_2_culled', config).out
          /\ _4_aspectRatioFiltered' = aspectRatioFilterOf(_3_noIslands', config).out
     /\ last' = "execute" =>
          /\ _results'["raw_stack"] = _results["raw_stack"]
          /\ heap'[_results'["raw_stack"]] = heap[_results["raw_stack"]]
    ]_vars

C13_Witness ==
  /\ Returned("removeIslands")
  /\ _2_culled # None
  /\ _3_noIslands # _2_culled

====
